---- MODULE Spec2Model ----
(***************************************************************************)
(* Model of the chat relay of backend/backend.py: the Flask view           *)
(* chat_completion behind POST /api/chat, the module-level chat_client it  *)
(* calls, the upstream chat-completions service as its environment, and    *)
(* the process's standard output.                                          *)
(*                                                                         *)
(* Each invocation of the view is a process with its own locals (data,     *)
(* messages, response, ai_message, the caught exception e) and a program   *)
(* counter named after the source line it is about to execute.  The        *)
(* hosting server may run invocations in parallel, so their steps          *)
(* interleave freely.                                                      *)
(*                                                                         *)
(* Standard output is taken to be writable: print (line 32) does not       *)
(* raise.  Bodies sent with a non-JSON content type are not modelled; the  *)
(* body that is not JSON is malformed text sent as application/json.       *)
(***************************************************************************)
EXTENDS Integers, Sequences, FiniteSets, TLC

\* Number of invocations of the view the hosting server dispatches.
NumInvocations == 2

Invocations == 1..NumInvocations

VARIABLES
    chat_client,     \* the module-level client: base URL and credential
    pc,              \* per invocation: the line it is about to execute
    request,         \* per invocation: the body of the request
    data,            \* per invocation: local `data`
    messages,        \* per invocation: local `messages`
    response,        \* per invocation: local `response`
    ai_message,      \* per invocation: local `ai_message`
    exc,             \* per invocation: the exception raised, if any
    result,          \* per invocation: what the view returned or raised
    upstream_calls,  \* per invocation: the calls it sent upstream
    stdout           \* standard output: the lines printed, with their writer

vars == <<chat_client, pc, request, data, messages, response, ai_message,
          exc, result, upstream_calls, stdout>>

----------------------------------------------------------------------------
(* JSON values, as Python sees them after parsing.                         *)

JNull == [tag |-> "null"]

JStr(s) == [tag |-> "str", str |-> s]

JList(xs) == [tag |-> "list", items |-> xs]

\* A mapping is its set of <<key, value>> pairs.
JDict(pairs) == [tag |-> "dict", pairs |-> pairs]

MessageObject(role, content) ==
    JDict({<<"role", JStr(role)>>, <<"content", JStr(content)>>})

M1 == MessageObject("user", "hi")

M2 == MessageObject("assistant", "yo")

\* Values a caller may put under the `messages` key.
MessagesValues ==
    { JNull, JList(<<>>), JStr("hi"),
      JList(<<M1>>), JList(<<M1, M2>>) }

\* Parsed request bodies: mappings with and without `messages`, one with a
\* `model` key of the caller's, and JSON documents that are not mappings.
JsonDocuments ==
    { JNull, JList(<<>>), JDict({}) }
    \cup { JDict({<<"messages", v>>}) : v \in MessagesValues }
    \cup { JDict({<<"messages", JList(<<M2, M1>>)>>, <<"model", JStr("gpt-4")>>}) }

MalformedBody == [json |-> FALSE]

JsonBody(v) == [json |-> TRUE, value |-> v]

Bodies == {MalformedBody} \cup { JsonBody(v) : v \in JsonDocuments }

----------------------------------------------------------------------------
(* Exceptions: a type and the text str(e) gives.                           *)

Exception(type, text) == [type |-> type, text |-> text]

BadRequest ==
    Exception("BadRequest",
              "400 Bad Request: The browser (or proxy) sent a request that this server could not understand.")

AttributeError(tag) ==
    Exception("AttributeError",
              IF tag = "null" THEN "'NoneType' object has no attribute 'get'"
              ELSE IF tag = "list" THEN "'list' object has no attribute 'get'"
              ELSE "'str' object has no attribute 'get'")

IndexError == Exception("IndexError", "list index out of range")

\* Errors the upstream client raises.
UpstreamErrors ==
    { Exception("APIConnectionError", "Connection error."),
      Exception("APITimeoutError", "Request timed out.") }

\* str(e), line 41.
\* Variant: the exception's type name in place of its text.
MutStr(e) == e.type
Str(e) == e.text

----------------------------------------------------------------------------
(* The upstream's reply.                                                   *)

Choice(index, content) ==
    [index |-> index, finish_reason |-> "stop",
     message |-> [role |-> "assistant", content |-> content]]

ChoicesLists ==
    { <<>>,
      <<Choice(0, "hello")>>,
      <<Choice(0, "bye"), Choice(1, "hello")>> }

Completion(choices) == [object |-> "chat.completion", choices |-> choices]

----------------------------------------------------------------------------
(* Python helpers of the view.                                             *)

\* dict.get(key, default), line 22.
DictGet(d, key, default) ==
    IF \E kv \in d.pairs : kv[1] = key
    THEN (CHOOSE kv \in d.pairs : kv[1] = key)[2]
    ELSE default

\* Truth value of a parsed JSON value, as `not messages` tests it, line 23.
\* Variant: only None counts as false (`messages is None`).
MutTruthy(v) == v.tag # "null"
Truthy(v) ==
    CASE v.tag = "null" -> FALSE
      [] v.tag = "str"  -> v.str # ""
      [] v.tag = "list" -> Len(v.items) > 0
      [] v.tag = "dict" -> v.pairs # {}

\* jsonify(body): a JSON response, status 200 unless the view overrides it.
Jsonify(body) == [kind |-> "response", status |-> 200, body |-> body]

\* `return resp, status`
WithStatus(resp, status) == [resp EXCEPT !.status = status]

\* An exception leaving the view.
Raised(e) == [kind |-> "raised", exc |-> e]

NoMessagesResponse ==
    WithStatus(Jsonify([error |-> "No messages provided"]), 400)

\* response.choices[0], line 31.
\* Variant: the last choice, choices[-1].
MutFirstChoice(choices) == choices[Len(choices)]
FirstChoice(choices) == choices[1]

\* The body of lines 33-39.
\* Variant: the envelope also carries a running number of answers printed.
MutEnvelope(content) ==
    [choices |-> <<[message |-> [content |-> content]]>>,
     created |-> Len(stdout)]
Envelope(content) == [choices |-> <<[message |-> [content |-> content]]>>]

\* The line print("AI Response:", ai_message) writes, line 32.
PrintLine(content) == <<"AI Response:", content>>

\* The model argument of line 28.
Model == "tentris"

----------------------------------------------------------------------------
None == [tag |-> "unset"]

Init ==
    /\ chat_client = [base_url |-> "http://tentris-ml.cs.upb.de:8501/v1",
                      api_key |-> "OPENAI_API_KEY"]
    /\ pc = [p \in Invocations |-> "idle"]
    /\ request = [p \in Invocations |-> None]
    /\ data = [p \in Invocations |-> None]
    /\ messages = [p \in Invocations |-> None]
    /\ response = [p \in Invocations |-> None]
    /\ ai_message = [p \in Invocations |-> None]
    /\ exc = [p \in Invocations |-> None]
    /\ result = [p \in Invocations |-> None]
    /\ upstream_calls = [p \in Invocations |-> <<>>]
    /\ stdout = <<>>

\* The route dispatches a POST /api/chat to the view.
Dispatch(p, body) ==
    /\ pc[p] = "idle"
    /\ request' = [request EXCEPT ![p] = body]
    /\ pc' = [pc EXCEPT ![p] = "l21"]
    /\ UNCHANGED <<chat_client, data, messages, response, ai_message, exc,
                   result, upstream_calls, stdout>>

\* Line 21: data = request.json.  A body that does not parse raises
\* BadRequest, outside the try block.
RequestJson(p) ==
    /\ pc[p] = "l21"
    /\ IF request[p].json
       THEN /\ data' = [data EXCEPT ![p] = request[p].value]
            /\ pc' = [pc EXCEPT ![p] = "l22"]
            /\ UNCHANGED <<exc, result>>
       ELSE /\ exc' = [exc EXCEPT ![p] = BadRequest]
            /\ result' = [result EXCEPT ![p] = Raised(BadRequest)]
            /\ pc' = [pc EXCEPT ![p] = "done"]
            /\ UNCHANGED data
    /\ UNCHANGED <<chat_client, request, messages, response, ai_message,
                   upstream_calls, stdout>>

\* Line 22: messages = data.get('messages', []).  Only a mapping has .get;
\* the AttributeError of anything else is raised outside the try block.
\* Variant: `messages` is a module-level name shared by all invocations.
MutGetMessages(p) ==
    /\ pc[p] = "l22"
    /\ IF data[p].tag = "dict"
       THEN /\ messages' = [q \in Invocations |->
                              DictGet(data[p], "messages", JList(<<>>))]
            /\ pc' = [pc EXCEPT ![p] = "l23"]
            /\ UNCHANGED <<exc, result>>
       ELSE /\ exc' = [exc EXCEPT ![p] = AttributeError(data[p].tag)]
            /\ result' = [result EXCEPT ![p] = Raised(AttributeError(data[p].tag))]
            /\ pc' = [pc EXCEPT ![p] = "done"]
            /\ UNCHANGED messages
    /\ UNCHANGED <<chat_client, request, data, response, ai_message,
                   upstream_calls, stdout>>
GetMessages(p) ==
    /\ pc[p] = "l22"
    /\ IF data[p].tag = "dict"
       THEN /\ messages' = [messages EXCEPT ![p] =
                              DictGet(data[p], "messages", JList(<<>>))]
            /\ pc' = [pc EXCEPT ![p] = "l23"]
            /\ UNCHANGED <<exc, result>>
       ELSE /\ exc' = [exc EXCEPT ![p] = AttributeError(data[p].tag)]
            /\ result' = [result EXCEPT ![p] = Raised(AttributeError(data[p].tag))]
            /\ pc' = [pc EXCEPT ![p] = "done"]
            /\ UNCHANGED messages
    /\ UNCHANGED <<chat_client, request, data, response, ai_message,
                   upstream_calls, stdout>>

\* Lines 23-24: if not messages: return jsonify({...}), 400.
CheckMessages(p) ==
    /\ pc[p] = "l23"
    /\ IF Truthy(messages[p])
       THEN /\ pc' = [pc EXCEPT ![p] = "l27"]
            /\ UNCHANGED result
       ELSE /\ result' = [result EXCEPT ![p] = NoMessagesResponse]
            /\ pc' = [pc EXCEPT ![p] = "done"]
    /\ UNCHANGED <<chat_client, request, data, messages, response, ai_message,
                   exc, upstream_calls, stdout>>

\* The arguments of chat_client.chat.completions.create, lines 27-30.
\* Variant: the model is taken from the request when it names one.
MutCreateArgs(p) ==
    [model |-> DictGet(data[p], "model", JStr(Model)).str,
     messages |-> messages[p],
     base_url |-> chat_client.base_url,
     api_key |-> chat_client.api_key]
CreateArgs(p) ==
    [model |-> Model,
     messages |-> messages[p],
     base_url |-> chat_client.base_url,
     api_key |-> chat_client.api_key]

\* Lines 27-30: the call is sent and the invocation blocks on it.
Create(p) ==
    /\ pc[p] = "l27"
    /\ upstream_calls' = [upstream_calls EXCEPT ![p] = Append(@, CreateArgs(p))]
    /\ pc' = [pc EXCEPT ![p] = "wait"]
    /\ UNCHANGED <<chat_client, request, data, messages, response, ai_message,
                   exc, result, stdout>>

\* The upstream answers and create returns: response is assigned, line 27.
CreateReturns(p, choices) ==
    /\ pc[p] = "wait"
    /\ response' = [response EXCEPT ![p] = Completion(choices)]
    /\ pc' = [pc EXCEPT ![p] = "l31"]
    /\ UNCHANGED <<chat_client, request, data, messages, ai_message, exc,
                   result, upstream_calls, stdout>>

\* The upstream fails and create raises inside the try block.
CreateRaises(p, e) ==
    /\ pc[p] = "wait"
    /\ exc' = [exc EXCEPT ![p] = e]
    /\ pc' = [pc EXCEPT ![p] = "l40"]
    /\ UNCHANGED <<chat_client, request, data, messages, response, ai_message,
                   result, upstream_calls, stdout>>

\* Line 31: ai_message = response.choices[0].message.content; an empty
\* choices list raises IndexError inside the try block.
FirstContent(p) ==
    /\ pc[p] = "l31"
    /\ IF Len(response[p].choices) = 0
       THEN /\ exc' = [exc EXCEPT ![p] = IndexError]
            /\ pc' = [pc EXCEPT ![p] = "l40"]
            /\ UNCHANGED ai_message
       ELSE /\ ai_message' = [ai_message EXCEPT ![p] =
                                FirstChoice(response[p].choices).message.content]
            /\ pc' = [pc EXCEPT ![p] = "l32"]
            /\ UNCHANGED exc
    /\ UNCHANGED <<chat_client, request, data, messages, response, result,
                   upstream_calls, stdout>>

\* Line 32: print("AI Response:", ai_message).
\* Variant: the print statement is absent.
MutPrintAiMessage(p) ==
    /\ pc[p] = "l32"
    /\ pc' = [pc EXCEPT ![p] = "l33"]
    /\ UNCHANGED <<chat_client, request, data, messages, response, ai_message,
                   exc, result, upstream_calls, stdout>>
PrintAiMessage(p) ==
    /\ pc[p] = "l32"
    /\ stdout' = Append(stdout, [writer |-> p, line |-> PrintLine(ai_message[p])])
    /\ pc' = [pc EXCEPT ![p] = "l33"]
    /\ UNCHANGED <<chat_client, request, data, messages, response, ai_message,
                   exc, result, upstream_calls>>

\* Lines 33-39: return jsonify({"choices": [{"message": {"content": ...}}]}).
ReturnChoices(p) ==
    /\ pc[p] = "l33"
    /\ result' = [result EXCEPT ![p] = Jsonify(Envelope(ai_message[p]))]
    /\ pc' = [pc EXCEPT ![p] = "done"]
    /\ UNCHANGED <<chat_client, request, data, messages, response, ai_message,
                   exc, upstream_calls, stdout>>

\* Lines 40-41: except Exception as e: return jsonify({'error': str(e)}), 500.
\* Variant: the except clause retries the call.
MutExceptException(p) ==
    /\ pc[p] = "l40"
    /\ pc' = [pc EXCEPT ![p] = "l27"]
    /\ UNCHANGED <<chat_client, request, data, messages, response, ai_message,
                   exc, result, upstream_calls, stdout>>
ExceptException(p) ==
    /\ pc[p] = "l40"
    /\ result' = [result EXCEPT ![p] =
                    WithStatus(Jsonify([error |-> Str(exc[p])]), 500)]
    /\ pc' = [pc EXCEPT ![p] = "done"]
    /\ UNCHANGED <<chat_client, request, data, messages, response, ai_message,
                   exc, upstream_calls, stdout>>

Next ==
    \/ \E p \in Invocations, body \in Bodies : Dispatch(p, body)
    \/ \E p \in Invocations : RequestJson(p)
    \/ \E p \in Invocations : GetMessages(p)
    \/ \E p \in Invocations : CheckMessages(p)
    \/ \E p \in Invocations : Create(p)
    \/ \E p \in Invocations, choices \in ChoicesLists : CreateReturns(p, choices)
    \/ \E p \in Invocations, e \in UpstreamErrors : CreateRaises(p, e)
    \/ \E p \in Invocations : FirstContent(p)
    \/ \E p \in Invocations : PrintAiMessage(p)
    \/ \E p \in Invocations : ReturnChoices(p)
    \/ \E p \in Invocations : ExceptException(p)

Spec == Init /\ [][Next]_vars

----------------------------------------------------------------------------
(* Properties.                                                             *)

Done(p) == pc[p] = "done"

\* The request's body is a JSON mapping.
IsMapping(body) == body.json /\ body.value.tag = "dict"

HasMessages(body) == \E kv \in body.value.pairs : kv[1] = "messages"

\* The value under `messages` (only where HasMessages).
MessagesOf(body) == (CHOOSE kv \in body.value.pairs : kv[1] = "messages")[2]

\* The body is a mapping whose `messages` is a non-empty list or string.
PassesValidation(body) ==
    /\ IsMapping(body)
    /\ HasMessages(body)
    /\ \/ MessagesOf(body).tag = "list" /\ MessagesOf(body).items # <<>>
       \/ MessagesOf(body).tag = "str" /\ MessagesOf(body).str # ""

Response(status, body) == [kind |-> "response", status |-> status, body |-> body]

\* The lines of standard output written by invocation p.
LinesOf(p) == { k \in DOMAIN stdout : stdout[k].writer = p }

Locals(p) ==
    <<pc[p], request[p], data[p], messages[p], response[p], ai_message[p],
      exc[p], result[p], upstream_calls[p]>>

\* C1: a request whose body is a mapping with `messages` missing or equal to
\* the empty list is answered 400 with the body {"error": "No messages
\* provided"}.
C1_NoMessages ==
    \A p \in Invocations :
        ( /\ Done(p)
          /\ IsMapping(request[p])
          /\ \/ ~ HasMessages(request[p])
             \/ MessagesOf(request[p]) = JList(<<>>) )
        => result[p] = Response(400, [error |-> "No messages provided"])

C1_Witness ==
    \E p, q \in Invocations :
        /\ Done(p) /\ Done(q)
        /\ request[p] = JsonBody(JDict({}))
        /\ request[q] = JsonBody(JDict({<<"messages", JList(<<>>)>>}))
        /\ result[p].status = 400 /\ result[q].status = 400

\* C2: with a non-empty `messages` list and an upstream reply of at least one
\* choice, the answer is 200 with exactly one choice {message: {content: C}},
\* C the content of the upstream's first choice, however many it returned.
C2_FirstChoiceEnvelope ==
    \A p \in Invocations :
        ( /\ Done(p)
          /\ IsMapping(request[p])
          /\ HasMessages(request[p])
          /\ MessagesOf(request[p]).tag = "list"
          /\ MessagesOf(request[p]).items # <<>>
          /\ response[p] # None
          /\ Len(response[p].choices) >= 1 )
        => result[p] =
             Response(200,
                      [choices |->
                         <<[message |->
                              [content |-> response[p].choices[1].message.content]]>>])

C2_Witness ==
    \E p \in Invocations :
        /\ Done(p)
        /\ request[p] = JsonBody(JDict({<<"messages", JList(<<M1, M2>>)>>}))
        /\ response[p] # None
        /\ Len(response[p].choices) = 2
        /\ result[p].status = 200
        /\ result[p].body.choices[1].message.content = "bye"

\* C3: for a request that passes validation, an error raised by the upstream
\* call, or a reply without a first choice, is answered 500 with body
\* {"error": S}, S the text of the failure, and never 200.
C3_UpstreamFailure500 ==
    \A p \in Invocations :
        (Done(p) /\ PassesValidation(request[p]))
        => /\ exc[p] \in UpstreamErrors
                => result[p] = Response(500, [error |-> exc[p].text])
           /\ (response[p] # None /\ response[p].choices = <<>>)
                => result[p] = Response(500, [error |-> "list index out of range"])

C3_Witness ==
    \E p, q \in Invocations :
        /\ Done(p) /\ Done(q)
        /\ PassesValidation(request[p]) /\ PassesValidation(request[q])
        /\ exc[p] \in UpstreamErrors
        /\ result[p].status = 500
        /\ response[q] # None /\ response[q].choices = <<>>
        /\ result[q].status = 500

\* C4: every invocation that completes, whatever its body and upstream
\* outcome, returns a 200, 400 or 500 response and never ends in an uncaught
\* exception.
C4_NeverRaises ==
    \A p \in Invocations :
        Done(p) => /\ result[p].kind = "response"
                   /\ result[p].status \in {200, 400, 500}

\* C5: a body that is not valid JSON is answered 400 with the body {"error":
\* "No messages provided"}, and no upstream call is made.
C5_MalformedBody400 ==
    \A p \in Invocations :
        (Done(p) /\ ~ request[p].json)
        => /\ result[p] = Response(400, [error |-> "No messages provided"])
           /\ upstream_calls[p] = <<>>

\* C6: every upstream call carries the caller's `messages` value unchanged
\* and the fixed model identifier, whatever else the request holds.
C6_Passthrough ==
    \A p \in Invocations :
        \A k \in DOMAIN upstream_calls[p] :
            /\ IsMapping(request[p])
            /\ <<"messages", upstream_calls[p][k].messages>> \in request[p].value.pairs
            /\ upstream_calls[p][k].model = "tentris"

C6_Witness ==
    \E p \in Invocations :
        /\ Len(upstream_calls[p]) = 1
        /\ <<"model", JStr("gpt-4")>> \in request[p].value.pairs
        /\ upstream_calls[p][1].messages = JList(<<M2, M1>>)
        /\ upstream_calls[p][1].model = "tentris"

C9_AtMostOneCall ==
    \A p \in Invocations :
        /\ Len(upstream_calls[p]) <= 1
        /\ pc[p] \in {"idle", "l21", "l22", "l23", "l27"} => upstream_calls[p] = <<>>
        /\ (Done(p) /\ ~ PassesValidation(request[p])) => upstream_calls[p] = <<>>
        /\ (Done(p) /\ PassesValidation(request[p])) => Len(upstream_calls[p]) = 1

C9_Witness ==
    \E p, q \in Invocations :
        /\ Done(p) /\ Done(q)
        /\ result[p] = NoMessagesResponse /\ upstream_calls[p] = <<>>
        /\ exc[q] \in UpstreamErrors /\ result[q].status = 500
        /\ Len(upstream_calls[q]) = 1

\* C10: an invocation that returns 200 has written exactly one line, after
\* its upstream call returned and before it produced the response, carrying
\* the content the response contains; one that returns 400 or 500 has
\* written none.
C10_DiagnosticLine ==
    \A p \in Invocations :
        /\ Cardinality(LinesOf(p)) <= 1
        /\ LinesOf(p) # {} => (response[p] # None /\ pc[p] \in {"l33", "done"})
        /\ (Done(p) /\ result[p].kind = "response" /\ result[p].status = 200)
             => \E k \in LinesOf(p) :
                    stdout[k].line =
                        <<"AI Response:", result[p].body.choices[1].message.content>>
        /\ (Done(p) /\ result[p].kind = "response" /\ result[p].status \in {400, 500})
             => LinesOf(p) = {}

C10_Witness ==
    \E p, q \in Invocations :
        /\ Done(p) /\ Done(q)
        /\ response[p] # None /\ response[q] # None
        /\ result[p].status = 200
        /\ \E k \in LinesOf(p) : stdout[k].line = <<"AI Response:", "hello">>
        /\ result[q].status = 500
        /\ LinesOf(q) = {}

====
